---- MODULE Spec2Model ----
(***************************************************************************)
(* A model of the tile-matching game of src/src/App.tsx and of its level   *)
(* generator and occlusion resolver in src/src/utils/gameLogic.ts.         *)
(*                                                                         *)
(* Numbers are kept below 2^31: a 32-bit LCG seed is a pair of 16-bit      *)
(* limbs [hi, lo] standing for hi * 2^16 + lo.                              *)
(***************************************************************************)
EXTENDS Integers, Sequences, FiniteSets, TLC

VARIABLES
    gen,        \* the locals of the running generateLevel call (a record)
    results,    \* the tile sequences returned by the completed generateLevel calls
    level,      \* App: useState level
    tiles,      \* App: useState tiles
    gameState,  \* App: useState gameState
    videoUrl,   \* App: useState videoUrl (NoVideo for null)
    loading,    \* the lvl argument of an initGame suspended at its await, 0 when none
    effects,    \* TRUE when a render was committed whose effects have not run yet
    timers,     \* the setTimeout callbacks not fired yet, oldest first: [ids, stale], the
                \* idsToMatch of the callback and whether a level has started since it was set
    now,        \* Date.now()
    budget      \* the number of clicks the run still accepts (bounds the run)

vars == <<gen, results, level, tiles, gameState, videoUrl, loading, effects, timers,
          now, budget>>

(***************************************************************************)
(* Bounds of the model.                                                    *)
(***************************************************************************)
\* the levels generateLevel is called with in the generator specification
MaxLevel == 13
\* the last level of a game
MaxGameLevel == 2
\* the number of clicks a run accepts
MaxClicks == 13
\* the number of clicks a run accepts after a restart
MaxRestartClicks == 1
\* the number of timers outstanding at a restart the run follows
MaxStale == 1
\* the number of tiles of a collection given to the resolver
MaxTiles == 3
\* the number of tiles of a collection given to the match detection
MaxMatchTiles == 4
\* the last timestamp of a tile given to the match detection
MaxAddedAt == 3
\* the number of clicks a run accepts that starts at the start of a level
MaxLevelClicks == 8
\* the number of clicks a timed run accepts
MaxTimedClicks == 5
\* the last value of the clock in a timed run
MaxNow == 2
\* the number of clicks a run accepts in the specification with fairness
MaxLiveClicks == 6
\* the number of clicks a run accepts that starts at a restart
MaxRestartedClicks == 10
\* the number of calls of next() on one generator in the seed specification
MaxNextCalls == 50

(***************************************************************************)
(* Program constants.                                                      *)
(***************************************************************************)
\* constants.ts is not part of the sources; the tile is drawn 48px wide
TILE_SIZE == 48
\* App.tsx: "exactly 6 tiles are in slot (SLOT_SIZE - 1)"
SLOT_SIZE == 7
\* TILE_TYPES.length: the size of the type catalog (types are catalog indices)
TILE_TYPES_length == 12

boardWidth == 320
boardHeight == 480
gridStep == TILE_SIZE \div 2
MaxAttempts == 30
MaxSets == 60
MaxLayers == 12

\* the LCG of SeededRandom.next()
Multiplier == 1664525
Increment == 1013904223
\* 4294967296 = Limb * Limb
Limb == 65536

Min(a, b) == IF a < b THEN a ELSE b

(***************************************************************************)
(* SeededRandom                                                            *)
(***************************************************************************)
\* new SeededRandom(seed), for 0 <= seed < 2^31
SeededRandom(seed) == [hi |-> seed \div Limb, lo |-> seed % Limb]

\* a step that loses the carry out of the low 16 bits
SeededRandomNextNoCarry(s) ==
    LET aHi == Multiplier \div Limb
        aLo == Multiplier % Limb
        cHi == Increment \div Limb
        cLo == Increment % Limb
        t0  == s.lo * aLo + cLo
        t1  == ((s.hi * aLo) % Limb) + s.lo * aHi + cHi
    IN  [hi |-> t1 % Limb, lo |-> t0 % Limb]

\* this.seed = (this.seed * 1664525 + 1013904223) % 4294967296
SeededRandomNext(s) ==
    LET aHi == Multiplier \div Limb
        aLo == Multiplier % Limb
        cHi == Increment \div Limb
        cLo == Increment % Limb
        t0  == s.lo * aLo + cLo
        t1  == ((s.hi * aLo) % Limb) + s.lo * aHi + cHi + (t0 \div Limb)
    IN  [hi |-> t1 % Limb, lo |-> t0 % Limb]

\* Math.floor((seed / 4294967296) * n) for an integer 0 < n < 2^15: the division
\* by 2^32 and the product by n are exact in binary64, so this is
\* floor(seed * n / 2^32).
FloorScaled(s, n) == (s.hi * n + ((s.lo * n) \div Limb)) \div Limb

\* Math.floor((seed / 4294967296) * (available / gridStep)), as the floor of the
\* exact quotient seed * available / (gridStep * 2^32).
FloorGrid(s, available) == FloorScaled(s, available) \div gridStep

(***************************************************************************)
(* generateLevel, one loop iteration per step                              *)
(***************************************************************************)
numSetsOf(lvl) ==
    LET n0 == 4
        n1 == IF lvl = 2 THEN 15 ELSE n0
        n2 == IF lvl > 2 THEN 15 + (lvl - 2) * 5 ELSE n1
    IN  Min(n2, MaxSets)

numTypesOf(lvl) == Min(3 + lvl * 2, TILE_TYPES_length)

\* a number of layers without its cap
layersOfUncapped(lvl) == 3 + lvl * 2

\* Math.min(3 + level * 2, 12)
layersOf(lvl) == Min(3 + lvl * 2, MaxLayers)

\* Math.floor in the place of Math.ceil
tilesPerLayerFloor(len, layers) == len \div layers

\* Math.ceil(typesToPlace.length / layers)
tilesPerLayerOf(len, layers) == (len + layers - 1) \div layers

\* an id made of the layer alone
TileIdOfLayer(z, i, typeIndex) == <<z, 0, 0>>

\* `tile-${z}-${i}-${typeIndex}`: three numbers between separators
TileId(z, i, typeIndex) == <<z, i, typeIndex>>

\* the seed of the generator of one call
SeedOfCall(lvl) == SeededRandom(lvl + 1000)

\* the state of a call at its first loop
GenStart(lvl) ==
    [pc |-> "sets", level |-> lvl, seed |-> SeedOfCall(lvl),
     typesToPlace |-> <<>>, i |-> 0, tiles |-> <<>>, z |-> 0, typeIndex |-> 0,
     attempts |-> 0]

GenIdle ==
    [pc |-> "idle", level |-> 0, seed |-> SeededRandom(0),
     typesToPlace |-> <<>>, i |-> 0, tiles |-> <<>>, z |-> 0, typeIndex |-> 0,
     attempts |-> 0]

\* for (let i = 0; i < numSets; i++) { ... push(type, type, type) }
StepSets(g) ==
    IF g.i < numSetsOf(g.level)
    THEN LET s    == SeededRandomNext(g.seed)
             type == FloorScaled(s, numTypesOf(g.level))
         IN  [g EXCEPT !.seed = s, !.i = g.i + 1,
                       !.typesToPlace = g.typesToPlace \o <<type, type, type>>]
    ELSE [g EXCEPT !.pc = "shuffle", !.i = Len(g.typesToPlace) - 1]

\* a swap that loses typesToPlace[i]
SwapLost(seq, i, j) == [seq EXCEPT ![i + 1] = seq[j + 1]]

\* [typesToPlace[i], typesToPlace[j]] = [typesToPlace[j], typesToPlace[i]]
\* (0-based positions i and j)
Swap(seq, i, j) == [seq EXCEPT ![i + 1] = seq[j + 1], ![j + 1] = seq[i + 1]]

\* for (let i = typesToPlace.length - 1; i > 0; i--) { j = ...; swap }
StepShuffle(g) ==
    IF g.i > 0
    THEN LET s == SeededRandomNext(g.seed)
             j == FloorScaled(s, g.i + 1)
         IN  [g EXCEPT !.seed = s, !.i = g.i - 1,
                       !.typesToPlace = Swap(g.typesToPlace, g.i, j)]
    ELSE [g EXCEPT !.pc = "place", !.i = 0, !.z = 0, !.typeIndex = 0, !.attempts = 0]

\* the loop heads of the two for loops, from the point where layer z is about to
\* run its iteration i: the state of the next do-while, or "done"
RECURSIVE LoopHead(_, _, _)
LoopHead(g, z, i) ==
    LET layers == layersOf(g.level)
        perLayer == tilesPerLayerOf(Len(g.typesToPlace), layers)
    IN  IF z >= layers
        THEN [g EXCEPT !.pc = "done", !.z = z, !.i = i]
        ELSE IF i < perLayer /\ g.typeIndex < Len(g.typesToPlace)
        THEN [g EXCEPT !.z = z, !.i = i, !.attempts = 0]
        ELSE LoopHead(g, z + 1, 0)

\* one pass of the do-while, with the tiles.push that follows its exit
StepPlace(g) ==
    LET z  == g.z
        layerMargin == 20 + z * 5
        availableWidth == boardWidth - TILE_SIZE - layerMargin * 2
        availableHeight == boardHeight - TILE_SIZE - layerMargin * 2
        s1 == SeededRandomNext(g.seed)
        s2 == SeededRandomNext(s1)
        x  == layerMargin + FloorGrid(s1, availableWidth) * gridStep
        y  == layerMargin + FloorGrid(s2, availableHeight) * gridStep
        samePosInCurrent ==
            \E k \in 1..Len(g.tiles) :
                g.tiles[k].z = z /\ g.tiles[k].x = x /\ g.tiles[k].y = y
        samePosInBelow ==
            z > 0 /\ \E k \in 1..Len(g.tiles) :
                g.tiles[k].z = z - 1 /\ g.tiles[k].x = x /\ g.tiles[k].y = y
        free == ~samePosInCurrent /\ ~samePosInBelow
        tile == [id |-> TileId(z, g.i, g.typeIndex), type |-> g.typesToPlace[g.typeIndex + 1],
                 x |-> x, y |-> y, z |-> z, status |-> "board"]
    IN  IF g.pc = "place" /\ g.attempts = 0 /\ LoopHead(g, g.z, g.i).pc = "done"
        THEN LoopHead(g, g.z, g.i)
        ELSE IF free \/ g.attempts + 1 >= MaxAttempts
        THEN LoopHead([g EXCEPT !.seed = s2, !.tiles = Append(g.tiles, tile),
                                !.typeIndex = g.typeIndex + 1],
                      z, g.i + 1)
        ELSE [g EXCEPT !.seed = s2, !.attempts = g.attempts + 1]

GenStep(g) ==
    CASE g.pc = "sets"    -> StepSets(g)
      [] g.pc = "shuffle" -> StepShuffle(g)
      [] g.pc = "place"   -> StepPlace(g)
      [] OTHER            -> g

\* generateLevel(level): the call run to its return
RECURSIVE RunGen(_)
RunGen(g) == IF g.pc = "done" THEN g.tiles ELSE RunGen(GenStep(g))

generateLevel(lvl) == RunGen(GenStart(lvl))

\* generateLevel(lvl) for the levels of a game, computed once
LevelTiles == [lvl \in 1..MaxGameLevel |-> generateLevel(lvl)]

(***************************************************************************)
(* The generator specification: generateLevel(L) is called twice in a row, *)
(* one loop iteration per step, for each level L up to MaxLevel.           *)
(***************************************************************************)
\* useState<string | null>(null): no url, where a url is its index in realVideos
NoVideo == -1

\* the game variables but the budget, before the start button is pressed
AppMounted ==
    /\ level = 1
    /\ tiles = <<>>
    /\ gameState = "start"
    /\ videoUrl = NoVideo
    /\ loading = 0
    /\ effects = FALSE
    /\ timers = <<>>
    /\ now = 1

\* the game is not played
GameIdle == AppMounted /\ budget = 0

GameUnchanged ==
    UNCHANGED <<level, tiles, gameState, videoUrl, loading, effects, timers, now, budget>>

InitGen ==
    /\ \E lvl \in 1..MaxLevel : gen = GenStart(lvl)
    /\ results = <<>>
    /\ GameIdle

GenSets ==
    /\ gen.pc = "sets"
    /\ gen' = StepSets(gen)
    /\ UNCHANGED results
    /\ GameUnchanged

GenShuffle ==
    /\ gen.pc = "shuffle"
    /\ gen' = StepShuffle(gen)
    /\ UNCHANGED results
    /\ GameUnchanged

GenPlace ==
    /\ gen.pc = "place"
    /\ gen' = StepPlace(gen)
    /\ UNCHANGED results
    /\ GameUnchanged

\* return tiles
GenReturn ==
    /\ gen.pc = "done"
    /\ results' = Append(results, gen.tiles)
    /\ gen' = [gen EXCEPT !.pc = "returned"]
    /\ GameUnchanged

\* a second call that goes on with the generator the first call left behind
GenCallAgainCarry ==
    /\ gen.pc = "returned"
    /\ Len(results) < 2
    /\ gen' = [GenStart(gen.level) EXCEPT !.seed = gen.seed]
    /\ UNCHANGED results
    /\ GameUnchanged

\* the second call, with the same argument
GenCallAgain ==
    /\ gen.pc = "returned"
    /\ Len(results) < 2
    /\ gen' = GenStart(gen.level)
    /\ UNCHANGED results
    /\ GameUnchanged

NextGen == GenSets \/ GenShuffle \/ GenPlace \/ GenReturn \/ GenCallAgain

SpecGen == InitGen /\ [][NextGen]_vars

(***************************************************************************)
(* The occlusion resolver                                                  *)
(***************************************************************************)
\* an overlap test that counts touching boxes
checkOverlapInclusive(t1, t2) ==
    /\ t1.x <= t2.x + TILE_SIZE
    /\ t1.x + TILE_SIZE >= t2.x
    /\ t1.y <= t2.y + TILE_SIZE
    /\ t1.y + TILE_SIZE >= t2.y

checkOverlap(t1, t2) ==
    /\ t1.x < t2.x + TILE_SIZE
    /\ t1.x + TILE_SIZE > t2.x
    /\ t1.y < t2.y + TILE_SIZE
    /\ t1.y + TILE_SIZE > t2.y

\* allTiles.findIndex(t => t.id === id), 1-based, 0 when there is none (JS: -1)
FindIndex(allTiles, id) ==
    IF \E k \in 1..Len(allTiles) : allTiles[k].id = id
    THEN CHOOSE k \in 1..Len(allTiles) :
            /\ allTiles[k].id = id
            /\ \A j \in 1..(k - 1) : allTiles[j].id # id
    ELSE 0

\* a resolver that lets tiles of every status block
isTileClickableAnyStatus(tile, allTiles) ==
    IF tile.status # "board"
    THEN FALSE
    ELSE LET tileIndex == FindIndex(allTiles, tile.id)
         IN  ~\E i \in 1..Len(allTiles) :
                LET other == allTiles[i]
                IN  /\ other.id # tile.id
                    /\ (other.z > tile.z \/ (other.z = tile.z /\ i > tileIndex))
                    /\ checkOverlap(tile, other)

\* a resolver whose same-layer rule lets the earlier tile block
isTileClickableEarlier(tile, allTiles) ==
    IF tile.status # "board"
    THEN FALSE
    ELSE LET tileIndex == FindIndex(allTiles, tile.id)
         IN  ~\E i \in 1..Len(allTiles) :
                LET other == allTiles[i]
                IN  /\ ~(other.id = tile.id \/ other.status # "board")
                    /\ (other.z > tile.z \/ (other.z = tile.z /\ i < tileIndex))
                    /\ checkOverlap(tile, other)

\* a resolver that asks a later index of a higher tile too
isTileClickableLaterOnly(tile, allTiles) ==
    IF tile.status # "board"
    THEN FALSE
    ELSE LET tileIndex == FindIndex(allTiles, tile.id)
         IN  ~\E i \in 1..Len(allTiles) :
                LET other == allTiles[i]
                IN  /\ ~(other.id = tile.id \/ other.status # "board")
                    /\ (other.z >= tile.z /\ i > tileIndex)
                    /\ checkOverlap(tile, other)

\* a resolver in which tiles of one layer block each other
isTileClickableSameLayerBoth(tile, allTiles) ==
    IF tile.status # "board"
    THEN FALSE
    ELSE ~\E i \in 1..Len(allTiles) :
            LET other == allTiles[i]
            IN  /\ ~(other.id = tile.id \/ other.status # "board")
                /\ other.z >= tile.z
                /\ checkOverlap(tile, other)

isTileClickable(tile, allTiles) ==
    IF tile.status # "board"
    THEN FALSE
    ELSE LET tileIndex == FindIndex(allTiles, tile.id)
         IN  ~\E i \in 1..Len(allTiles) :
                LET other == allTiles[i]
                IN  /\ ~(other.id = tile.id \/ other.status # "board")
                    /\ (other.z > tile.z \/ (other.z = tile.z /\ i > tileIndex))
                    /\ checkOverlap(tile, other)

(***************************************************************************)
(* App: the derived values and the bodies of the handlers and effects      *)
(***************************************************************************)
\* tiles.filter(t => t.status === st)
WithStatus(ts, st) == SelectSeq(ts, LAMBDA t : t.status = st)

\* the number of entries of seq of type ty: typeCount[ty]
TypeCount(seq, ty) == Cardinality({k \in 1..Len(seq) : seq[k].type = ty})

\* a test for four of a type
HasMatchFour(seq) == \E k \in 1..Len(seq) : TypeCount(seq, seq[k].type) >= 4

\* Object.values(typeCount).some(count => count >= 3)
HasMatch(seq) == \E k \in 1..Len(seq) : TypeCount(seq, seq[k].type) >= 3

\* (a.addedAt || 0)
AddedAtOr0(t) == IF "addedAt" \in DOMAIN t THEN t.addedAt ELSE 0

\* a sort that puts the newest first
SortedPlaceNewest(seq, k) ==
    Cardinality({j \in 1..Len(seq) :
        \/ AddedAtOr0(seq[j]) > AddedAtOr0(seq[k])
        \/ (AddedAtOr0(seq[j]) = AddedAtOr0(seq[k]) /\ j < k)})

\* the 0-based place of seq[k] after seq.sort((a, b) => (a.addedAt || 0) -
\* (b.addedAt || 0)); Array.prototype.sort is stable
SortedPlace(seq, k) ==
    Cardinality({j \in 1..Len(seq) :
        \/ AddedAtOr0(seq[j]) < AddedAtOr0(seq[k])
        \/ (AddedAtOr0(seq[j]) = AddedAtOr0(seq[k]) /\ j < k)})

\* Object.keys(typeCount).find(type => typeCount[type] >= 3): the keys are in the
\* order of their first tile in matchableInSlot; the position of that tile, 0 if none
MatchedAt(matchableInSlot) ==
    IF HasMatch(matchableInSlot)
    THEN CHOOSE k \in 1..Len(matchableInSlot) :
            /\ TypeCount(matchableInSlot, matchableInSlot[k].type) >= 3
            /\ \A j \in 1..(k - 1) :
                  TypeCount(matchableInSlot, matchableInSlot[j].type) < 3
    ELSE 0

\* tilesOfThisType.slice(0, 3).map(t => t.id), as a set; {} when no type matches
idsToMatch(ts) ==
    LET matchableInSlot == WithStatus(ts, "slot")
        at == MatchedAt(matchableInSlot)
    IN  IF at = 0
        THEN {}
        ELSE LET matchedType == matchableInSlot[at].type
                 tilesOfThisType ==
                     SelectSeq(matchableInSlot, LAMBDA t : t.type = matchedType)
             IN  {tilesOfThisType[k].id : k \in
                     {j \in 1..Len(tilesOfThisType) : SortedPlace(tilesOfThisType, j) < 3}}

\* { ...t, status: 'slot', addedAt: Date.now() }
ToSlot(t, time) ==
    [f \in (DOMAIN t) \cup {"addedAt"} |->
        IF f = "status" THEN "slot" ELSE IF f = "addedAt" THEN time ELSE t[f]]

\* a status update that stamps the tile again
SetStatusStamped(prev, ids, st) ==
    [k \in 1..Len(prev) |->
        IF prev[k].id \in ids THEN [ToSlot(prev[k], now) EXCEPT !.status = st] ELSE prev[k]]

\* prev.map(t => ids.includes(t.id) ? { ...t, status: st } : t)
SetStatus(prev, ids, st) ==
    [k \in 1..Len(prev) |->
        IF prev[k].id \in ids THEN [prev[k] EXCEPT !.status = st] ELSE prev[k]]

\* an updater that does not ask the resolver
ClickUpdaterNoResolver(prev, id, time) ==
    LET at == FindIndex(prev, id)
    IN  IF at = 0 \/ prev[at].status # "board"
        THEN prev
        ELSE IF Len(WithStatus(prev, "slot")) >= SLOT_SIZE
        THEN prev
        ELSE [k \in 1..Len(prev) |->
                 IF prev[k].id = id THEN ToSlot(prev[k], time) ELSE prev[k]]

\* an updater that moves the clicked tile to the end of the collection
ClickUpdaterMoveToEnd(prev, id, time) ==
    LET at == FindIndex(prev, id)
    IN  IF at = 0 \/ prev[at].status # "board"
        THEN prev
        ELSE IF ~isTileClickable(prev[at], prev)
        THEN prev
        ELSE IF Len(WithStatus(prev, "slot")) >= SLOT_SIZE
        THEN prev
        ELSE Append(SelectSeq(prev, LAMBDA t : t.id # id), ToSlot(prev[at], time))

\* the updater handleTileClick passes to setTiles
ClickUpdater(prev, id, time) ==
    LET at == FindIndex(prev, id)
    IN  IF at = 0 \/ prev[at].status # "board"
        THEN prev
        ELSE IF ~isTileClickable(prev[at], prev)
        THEN prev
        ELSE IF Len(WithStatus(prev, "slot")) >= SLOT_SIZE
        THEN prev
        ELSE [k \in 1..Len(prev) |->
                 IF prev[k].id = id THEN ToSlot(prev[k], time) ELSE prev[k]]

\* a click handler without the game state guard and the capacity guard
handleTileClickUnguarded(gs, prev, id, time) ==
    LET at == FindIndex(prev, id)
    IN  IF at = 0 \/ prev[at].status # "board"
        THEN prev
        ELSE IF ~isTileClickable(prev[at], prev)
        THEN prev
        ELSE [k \in 1..Len(prev) |->
                 IF prev[k].id = id THEN ToSlot(prev[k], time) ELSE prev[k]]

\* handleTileClick: the tile collection after the click
handleTileClick(gs, prev, id, time) ==
    IF gs # "playing" THEN prev ELSE ClickUpdater(prev, id, time)

\* a win check that does not wait for the matching tiles
WinConditionEarly(ts) ==
    /\ Len(ts) > 0
    /\ Len(WithStatus(ts, "board")) = 0
    /\ Len(WithStatus(ts, "slot")) = 0

\* the win branch of the win/loss effect
WinCondition(ts) ==
    /\ Len(ts) > 0
    /\ Len(WithStatus(ts, "board")) = 0
    /\ Len(WithStatus(ts, "slot")) = 0
    /\ Len(WithStatus(ts, "matching")) = 0

\* a loss check that does not look for a pending match
LossConditionFullOnly(ts) == Len(WithStatus(ts, "slot")) = SLOT_SIZE

\* the loss branch of the win/loss effect
LossCondition(ts) ==
    /\ Len(WithStatus(ts, "slot")) = SLOT_SIZE
    /\ ~HasMatch(WithStatus(ts, "slot"))

\* the game state the win/loss effect leaves, run on the render (gs, ts)
WinLossEffect(gs, ts) ==
    IF gs # "playing"
    THEN gs
    ELSE IF LossCondition(ts) THEN "lost"
    ELSE IF WinCondition(ts) THEN "won"
    ELSE gs

\* a warning that does not look for matching tiles
isLastSlotWarningNoMatching ==
    IF gameState # "playing" THEN FALSE
    ELSE IF Len(WithStatus(tiles, "slot")) # SLOT_SIZE - 1 THEN FALSE
    ELSE ~HasMatch(WithStatus(tiles, "slot"))

\* isLastSlotWarning
isLastSlotWarning ==
    IF gameState # "playing" THEN FALSE
    ELSE IF Len(WithStatus(tiles, "slot")) # SLOT_SIZE - 1 THEN FALSE
    ELSE IF Len(WithStatus(tiles, "matching")) > 0 THEN FALSE
    ELSE ~HasMatch(WithStatus(tiles, "slot"))

\* videoService.getLevelVideo(level): the index of the url in realVideos
getLevelVideo(lvl) == (lvl - 1) % 5

Ids(ts) == {ts[k].id : k \in 1..Len(ts)}

(***************************************************************************)
(* The game: one action per event handler, effect pass and callback.       *)
(* An event (a click, a timer, a button) is handled when the render and    *)
(* the effects of the previous one are through, and when no initGame is    *)
(* suspended at its await (its continuation is a microtask).               *)
(***************************************************************************)
Quiet == effects = FALSE /\ loading = 0

GenUnchanged == UNCHANGED <<gen, results>>

Init ==
    /\ gen = GenIdle
    /\ results = <<>>
    /\ AppMounted
    /\ budget = MaxClicks

\* initGame(lvl) up to its await
InitGameBegin(lvl) ==
    /\ gameState' = "loading_video"
    /\ loading' = lvl
    /\ effects' = TRUE
    /\ UNCHANGED <<tiles, videoUrl, timers, now>>

\* startGame
StartGame ==
    /\ Quiet
    /\ gameState = "start"
    /\ level' = 1
    /\ InitGameBegin(1)
    /\ UNCHANGED budget
    /\ GenUnchanged

\* nextLevel
NextLevel ==
    /\ Quiet
    /\ gameState = "won"
    /\ level < MaxGameLevel
    /\ level' = level + 1
    /\ InitGameBegin(level + 1)
    /\ UNCHANGED budget
    /\ GenUnchanged

\* restartLevel
RestartLevel ==
    /\ Quiet
    /\ gameState \in {"playing", "lost"}
    /\ Len(timers) <= MaxStale
    /\ UNCHANGED level
    /\ InitGameBegin(level)
    /\ budget' = Min(budget, MaxRestartClicks)
    /\ GenUnchanged

\* a catch branch that reports the failure and leaves the start screen
InitGameContinueNoCatch(ok) ==
    /\ loading # 0
    /\ effects = FALSE
    /\ videoUrl' = IF ok THEN getLevelVideo(loading) ELSE videoUrl
    /\ tiles' = IF ok THEN LevelTiles[loading] ELSE tiles
    /\ gameState' = IF ok THEN "playing" ELSE "start"
    /\ loading' = 0
    /\ effects' = TRUE
    /\ timers' = [k \in 1..Len(timers) |-> [timers[k] EXCEPT !.stale = TRUE]]
    /\ UNCHANGED <<level, now, budget>>
    /\ GenUnchanged

\* the continuation of initGame after its await: the try block when the await
\* returned the url (ok), the catch block when it threw
InitGameContinue(ok) ==
    /\ loading # 0
    /\ effects = FALSE
    /\ videoUrl' = IF ok THEN getLevelVideo(loading) ELSE videoUrl
    /\ tiles' = LevelTiles[loading]
    /\ gameState' = "playing"
    /\ loading' = 0
    /\ effects' = TRUE
    /\ timers' = [k \in 1..Len(timers) |-> [timers[k] EXCEPT !.stale = TRUE]]
    /\ UNCHANGED <<level, now, budget>>
    /\ GenUnchanged

InitGameFinish == \E ok \in BOOLEAN : InitGameContinue(ok)

\* a click event on the tile with this id
TileClick(id) ==
    /\ Quiet
    /\ budget > 0
    /\ tiles' = handleTileClick(gameState, tiles, id, now)
    /\ effects' = (tiles' # tiles)
    /\ budget' = IF tiles' # tiles THEN budget - 1 ELSE budget
    /\ UNCHANGED <<level, gameState, videoUrl, loading, timers, now>>
    /\ GenUnchanged

\* one pass of the effects over the committed render: match detection, then the
\* win/loss check, both on the same tiles and gameState
RunEffects ==
    /\ effects = TRUE
    /\ LET ids == IF gameState = "playing" THEN idsToMatch(tiles) ELSE {}
       IN  /\ tiles' = IF ids # {} THEN SetStatus(tiles, ids, "matching") ELSE tiles
           /\ timers' = IF ids # {}
                        THEN Append(timers, [ids |-> ids, stale |-> FALSE])
                        ELSE timers
           /\ gameState' = WinLossEffect(gameState, tiles)
           /\ effects' = (ids # {} \/ gameState' # gameState)
    /\ UNCHANGED <<level, videoUrl, loading, now, budget>>
    /\ GenUnchanged

\* a callback that was cancelled: it is dropped and clears nothing
TimerFiresCancelled ==
    /\ Quiet
    /\ timers # <<>>
    /\ timers' = Tail(timers)
    /\ UNCHANGED <<level, tiles, gameState, videoUrl, loading, effects, now, budget>>
    /\ GenUnchanged

\* the oldest setTimeout callback fires
TimerFires ==
    /\ Quiet
    /\ timers # <<>>
    /\ tiles' = SetStatus(tiles, Head(timers).ids, "cleared")
    /\ timers' = Tail(timers)
    /\ effects' = TRUE
    /\ UNCHANGED <<level, gameState, videoUrl, loading, now, budget>>
    /\ GenUnchanged

Next ==
    \/ StartGame
    \/ NextLevel
    \/ RestartLevel
    \/ InitGameFinish
    \/ \E id \in Ids(tiles) : TileClick(id)
    \/ RunEffects
    \/ TimerFires

Spec == Init /\ [][Next]_vars

(***************************************************************************)
(* The resolver specification: isTileClickable and the click updater over  *)
(* every collection of up to MaxTiles tiles with unique ids, drawn from a  *)
(* few positions (equal, half a tile apart, one tile apart on either       *)
(* axis), two layers and the four statuses; one click is accepted.         *)
(***************************************************************************)
ResolverPositions ==
    {<<0, 0>>, <<gridStep, gridStep>>, <<TILE_SIZE, 0>>, <<0, TILE_SIZE>>}

ResolverLayers == {0, 1}

Statuses == {"board", "slot", "matching", "cleared"}

\* a tile as generateLevel pushes it, moved to status st (by a click at time at
\* when st is not board)
TileOf(k, type, pos, z, st, at) ==
    LET t == [id |-> TileId(z, k - 1, k - 1), type |-> type, x |-> pos[1], y |-> pos[2],
              z |-> z, status |-> "board"]
    IN  IF st = "board" THEN t ELSE [ToSlot(t, at) EXCEPT !.status = st]

InitResolver ==
    /\ gen = GenIdle
    /\ results = <<>>
    /\ level = 1
    /\ gameState = "playing"
    /\ videoUrl = NoVideo
    /\ loading = 0
    /\ effects = FALSE
    /\ timers = <<>>
    /\ now = 1
    /\ budget = 1
    /\ \E n \in 1..MaxTiles :
          \E f \in [1..n -> ResolverPositions \X ResolverLayers \X Statuses] :
              tiles = [k \in 1..n |-> TileOf(k, 0, f[k][1], f[k][2], f[k][3], now)]

NextResolver == \E id \in Ids(tiles) : TileClick(id)

SpecResolver == InitResolver /\ [][NextResolver]_vars

(***************************************************************************)
(* The match specification: the effects and the timers over every          *)
(* collection of up to MaxMatchTiles tiles of two types that are on the    *)
(* board, in the slot since a time up to MaxAddedAt, or cleared, in a      *)
(* render whose effects have not run yet.                                  *)
(***************************************************************************)
MatchChoices ==
    {<<"board", 0>>, <<"cleared", 1>>} \cup ({"slot"} \X (1..MaxAddedAt))

InitMatch ==
    /\ gen = GenIdle
    /\ results = <<>>
    /\ level = 1
    /\ gameState = "playing"
    /\ videoUrl = NoVideo
    /\ loading = 0
    /\ effects = TRUE
    /\ timers = <<>>
    /\ now = MaxAddedAt
    /\ budget = 0
    /\ \E n \in 1..MaxMatchTiles :
          \E f \in [1..n -> {0, 1} \X MatchChoices] :
              tiles = [k \in 1..n |->
                          TileOf(k, f[k][1], <<0, 0>>, k - 1, f[k][2][1], f[k][2][2])]

NextMatch == RunEffects \/ TimerFires

SpecMatch == InitMatch /\ [][NextMatch]_vars

(***************************************************************************)
(* The level specification: a game from the moment initGame has installed  *)
(* a level up to MaxGameLevel, with MaxLevelClicks clicks.  The timed       *)
(* specification is the same game on the first level with a clock that     *)
(* advances between events.                                                *)
(***************************************************************************)
\* the state initGame(lvl) leaves when no timer is outstanding
LevelStarted(lvl, clicks) ==
    /\ gen = GenIdle
    /\ results = <<>>
    /\ level = lvl
    /\ tiles = LevelTiles[lvl]
    /\ videoUrl = getLevelVideo(lvl)
    /\ gameState = "playing"
    /\ loading = 0
    /\ effects = TRUE
    /\ timers = <<>>
    /\ now = 1
    /\ budget = clicks

InitLevel == \E lvl \in 1..MaxGameLevel : LevelStarted(lvl, MaxLevelClicks)

\* time passes between two events
Tick ==
    /\ Quiet
    /\ now < MaxNow
    /\ now' = now + 1
    /\ UNCHANGED <<level, tiles, gameState, videoUrl, loading, effects, timers, budget>>
    /\ GenUnchanged

NextInLevel ==
    \/ RestartLevel
    \/ InitGameFinish
    \/ \E id \in Ids(tiles) : TileClick(id)
    \/ RunEffects
    \/ TimerFires

SpecLevel == InitLevel /\ [][NextInLevel]_vars

\* the game on the first level under the scheduling of the browser: a pending
\* effect pass runs, a continuation of initGame runs, and a setTimeout callback
\* whose delay has elapsed runs
InitLive == LevelStarted(1, MaxLiveClicks)

SpecLive ==
    /\ InitLive
    /\ [][NextInLevel]_vars
    /\ WF_vars(RunEffects)
    /\ WF_vars(InitGameFinish)
    /\ WF_vars(TimerFires)

\* the idsToMatch of the first match of a level, made by clicks on a, b and c
FirstMatch(lvl, a, b, c) ==
    LET t1 == handleTileClick("playing", LevelTiles[lvl], a, 1)
        t2 == handleTileClick("playing", t1, b, 1)
        t3 == handleTileClick("playing", t2, c, 1)
    IN  idsToMatch(t3)

\* the game on the first level from the moment restartLevel has installed it
\* again while the timer of the first match of the level was outstanding
InitRestarted ==
    /\ gen = GenIdle
    /\ results = <<>>
    /\ level = 1
    /\ tiles = LevelTiles[1]
    /\ videoUrl = getLevelVideo(1)
    /\ gameState = "playing"
    /\ loading = 0
    /\ effects = TRUE
    /\ \E a, b, c \in Ids(LevelTiles[1]) :
          /\ FirstMatch(1, a, b, c) # {}
          /\ timers = <<[ids |-> FirstMatch(1, a, b, c), stale |-> TRUE]>>
    /\ now = 1
    /\ budget = MaxRestartedClicks

NextRestarted ==
    \/ \E id \in Ids(tiles) : TileClick(id)
    \/ RunEffects
    \/ TimerFires

SpecRestarted == InitRestarted /\ [][NextRestarted]_vars

InitTimed == LevelStarted(1, MaxTimedClicks)

NextTimed == NextInLevel \/ Tick

SpecTimed == InitTimed /\ [][NextTimed]_vars

(***************************************************************************)
(* The seed specification: next() is called MaxNextCalls times on a        *)
(* generator whose seed is any combination of two 16-bit halves taken from *)
(* the ends and the middle of their range.                                 *)
(***************************************************************************)
SeedLimbs == {0, 1, 2, (Limb \div 2) - 1, Limb \div 2, Limb - 2, Limb - 1}

InitSeed ==
    /\ \E h, l \in SeedLimbs : gen = [GenIdle EXCEPT !.seed = [hi |-> h, lo |-> l]]
    /\ results = <<>>
    /\ GameIdle

\* rng.next()
CallNext ==
    /\ gen.i < MaxNextCalls
    /\ gen' = [gen EXCEPT !.seed = SeededRandomNext(gen.seed), !.i = gen.i + 1]
    /\ UNCHANGED results
    /\ GameUnchanged

SpecSeed == InitSeed /\ [][CallNext]_vars

(***************************************************************************)
(* Properties of the resolver, checked under SpecResolver                  *)
(***************************************************************************)
Abs(n) == IF n < 0 THEN 0 - n ELSE n

\* the boxes of the tiles at places j and k intersect on both axes
Overlapping(j, k) ==
    /\ Abs(tiles[j].x - tiles[k].x) < TILE_SIZE
    /\ Abs(tiles[j].y - tiles[k].y) < TILE_SIZE

\* the tile at place j is on the board, overlaps the one at place k and is in a
\* higher layer, or in the same layer and later in the collection
Blocks(j, k) ==
    /\ j # k
    /\ tiles[j].status = "board"
    /\ Overlapping(j, k)
    /\ (tiles[j].z > tiles[k].z \/ (tiles[j].z = tiles[k].z /\ j > k))

\* C4: isTileClickable is false for every tile that is not on the board; a board
\* tile is clickable iff no other board tile that overlaps it has a higher z, or
\* the same z and a higher index; slot, matching and cleared tiles never block
\* (the answer is the one for the collection without them).
C4_Clickable ==
    \A k \in 1..Len(tiles) :
        /\ tiles[k].status # "board" => ~isTileClickable(tiles[k], tiles)
        /\ tiles[k].status = "board" =>
              /\ isTileClickable(tiles[k], tiles) <=>
                    ~\E j \in 1..Len(tiles) : Blocks(j, k)
              /\ isTileClickable(tiles[k], tiles) <=>
                    isTileClickable(tiles[k], WithStatus(tiles, "board"))

\* after a click: a clickable board tile lies under tiles that left the board
C4_Witness ==
    /\ budget = 0
    /\ \E j, k \in 1..Len(tiles) :
          /\ tiles[k].status = "board"
          /\ tiles[j].status = "slot"
          /\ tiles[j].z > tiles[k].z
          /\ Overlapping(j, k)
          /\ isTileClickable(tiles[k], tiles)
    /\ \E j, k \in 1..Len(tiles) :
          /\ tiles[k].status = "board"
          /\ tiles[j].status \in {"matching", "cleared"}
          /\ tiles[j].z = tiles[k].z
          /\ j > k
          /\ Overlapping(j, k)

\* C5: of two overlapping board tiles of the same z the one with the lower index
\* is not clickable, and the one with the higher index is clickable provided no
\* other board tile blocks it.
C5_SameLayer ==
    \A j, k \in 1..Len(tiles) :
        (/\ j < k
         /\ tiles[j].status = "board"
         /\ tiles[k].status = "board"
         /\ tiles[j].z = tiles[k].z
         /\ Overlapping(j, k))
        => /\ ~isTileClickable(tiles[j], tiles)
           /\ (~\E m \in 1..Len(tiles) : m # j /\ Blocks(m, k))
                 => isTileClickable(tiles[k], tiles)

\* two overlapping board tiles of one layer and a third board tile that blocks
\* neither; the later one of the two is clickable
C5_Witness ==
    \E j, k, m \in 1..Len(tiles) :
        /\ j < k
        /\ m \notin {j, k}
        /\ tiles[j].status = "board"
        /\ tiles[k].status = "board"
        /\ tiles[m].status = "board"
        /\ tiles[j].z = tiles[k].z
        /\ Overlapping(j, k)
        /\ ~Blocks(m, k)
        /\ isTileClickable(tiles[k], tiles)
        /\ ~isTileClickable(tiles[j], tiles)

\* C6: a board tile overlapped by a board tile of a strictly higher z is not
\* clickable, wherever the two are in the collection.
C6_CrossLayer ==
    \A j, k \in 1..Len(tiles) :
        (/\ tiles[j].status = "board"
         /\ tiles[k].status = "board"
         /\ tiles[j].z > tiles[k].z
         /\ Overlapping(j, k))
        => ~isTileClickable(tiles[k], tiles)

\* a board tile with no later tile over it and an earlier, higher board tile
\* that overlaps it
C6_Witness ==
    \E j, k \in 1..Len(tiles) :
        /\ j < k
        /\ tiles[j].status = "board"
        /\ tiles[k].status = "board"
        /\ tiles[j].z > tiles[k].z
        /\ Overlapping(j, k)
        /\ ~\E m \in (k + 1)..Len(tiles) : Blocks(m, k)
        /\ ~isTileClickable(tiles[k], tiles)

\* the tiles at places j and k alone, in their order in the collection
PairOf(j, k) == IF j < k THEN <<tiles[j], tiles[k]>> ELSE <<tiles[k], tiles[j]>>

\* C19: of two distinct overlapping board tiles exactly one is clickable in the
\* collection of the two, and a collection with a board tile has a clickable
\* board tile.
C19_Topmost ==
    /\ \A j, k \in 1..Len(tiles) :
          (/\ j # k
           /\ tiles[j].status = "board"
           /\ tiles[k].status = "board"
           /\ checkOverlap(tiles[j], tiles[k]))
          => (isTileClickable(tiles[j], PairOf(j, k))
                <=> ~isTileClickable(tiles[k], PairOf(j, k)))
    /\ (\E k \in 1..Len(tiles) : tiles[k].status = "board")
          => \E k \in 1..Len(tiles) :
                tiles[k].status = "board" /\ isTileClickable(tiles[k], tiles)

\* three board tiles that overlap each other, two of them in one layer, and
\* exactly one of them is clickable
C19_Witness ==
    /\ Len(tiles) = 3
    /\ \A k \in 1..3 : tiles[k].status = "board"
    /\ \A j, k \in 1..3 : checkOverlap(tiles[j], tiles[k])
    /\ \E j, k \in 1..3 : j # k /\ tiles[j].z = tiles[k].z
    /\ Cardinality({k \in 1..3 : isTileClickable(tiles[k], tiles)}) = 1

\* C20: checkOverlap(t1, t2) is true iff both coordinate differences are below
\* TILE_SIZE in absolute value; it is false when one of them is exactly
\* TILE_SIZE; and it gives the same answer with its arguments exchanged.
C20_Overlap ==
    \A j, k \in 1..Len(tiles) :
        LET dx == Abs(tiles[j].x - tiles[k].x)
            dy == Abs(tiles[j].y - tiles[k].y)
        IN  /\ checkOverlap(tiles[j], tiles[k]) <=> (dx < TILE_SIZE /\ dy < TILE_SIZE)
            /\ (dx = TILE_SIZE \/ dy = TILE_SIZE) => ~checkOverlap(tiles[j], tiles[k])
            /\ checkOverlap(tiles[j], tiles[k]) <=> checkOverlap(tiles[k], tiles[j])

\* a collection with a pair of tiles half a tile apart on both axes that
\* overlap and a pair that touches along an edge and does not
C20_Witness ==
    /\ \E j, k \in 1..Len(tiles) :
          /\ Abs(tiles[j].x - tiles[k].x) = gridStep
          /\ Abs(tiles[j].y - tiles[k].y) = gridStep
          /\ checkOverlap(tiles[j], tiles[k])
    /\ \E j, k \in 1..Len(tiles) :
          /\ Abs(tiles[j].x - tiles[k].x) = TILE_SIZE
          /\ tiles[j].y = tiles[k].y
          /\ ~checkOverlap(tiles[j], tiles[k])

(***************************************************************************)
(* Properties of the game, checked under Spec                              *)
(***************************************************************************)
SlotCount == Len(WithStatus(tiles, "slot"))

\* the conditions under which a click on the tile with this id is accepted
Accepts(id) ==
    /\ gameState = "playing"
    /\ \E k \in 1..Len(tiles) :
          /\ tiles[k].id = id
          /\ tiles[k].status = "board"
          /\ isTileClickable(tiles[k], tiles)
    /\ SlotCount < SLOT_SIZE

\* C7: a tile moves from board to slot only if the game state is playing, the
\* tile is on the board and clickable in the latest collection and fewer than
\* SLOT_SIZE tiles are in the slot; every other click leaves the collection
\* unchanged, so a second click on a tile does not put it into the slot again.
C7_ClickGuard ==
    [][/\ \A k \in 1..Len(tiles) :
            (/\ Len(tiles') = Len(tiles)
             /\ tiles[k].status = "board"
             /\ tiles'[k].status = "slot")
            => Accepts(tiles[k].id)
       /\ \A id \in Ids(tiles) :
            TileClick(id) =>
                \/ tiles' = tiles
                \/ /\ Accepts(id)
                   /\ \A k \in 1..Len(tiles) :
                         IF tiles[k].id = id
                         THEN tiles'[k].status = "slot"
                         ELSE tiles'[k] = tiles[k]]_vars

\* a click was accepted and the board holds a tile that a click is refused for
C7_Witness ==
    /\ gameState = "playing"
    /\ Quiet
    /\ \E k \in 1..Len(tiles) : tiles[k].status = "slot"
    /\ \E k \in 1..Len(tiles) :
          tiles[k].status = "board" /\ ~isTileClickable(tiles[k], tiles)

\* C8: a callback set before a level start changes the status of no tile of the
\* tile set that level start generated.
C8_StaleCallback ==
    [][(TimerFires /\ Head(timers).stale)
          => \A k \in 1..Len(tiles) : tiles'[k].status = tiles[k].status]_vars

AllCleared(ts) == Len(ts) > 0 /\ \A k \in 1..Len(ts) : ts[k].status = "cleared"

\* C10: the game state goes from playing to won only in a state where the
\* collection is non-empty and every tile is cleared, and from such a state
\* while playing it goes to won.
C10_Win ==
    [][/\ (gameState = "playing" /\ gameState' = "won") => AllCleared(tiles)
       /\ (gameState = "playing" /\ AllCleared(tiles)) => gameState' = "won"]_vars

\* the level is won
C10_Witness == gameState = "won" /\ AllCleared(tiles)

\* C13: the last-slot warning is true iff the game state is playing, exactly
\* SLOT_SIZE - 1 tiles have status slot, no tile has status matching and no
\* type has 3 or more slot tiles.
C13_Warning ==
    isLastSlotWarning <=>
        /\ gameState = "playing"
        /\ SlotCount = SLOT_SIZE - 1
        /\ \A k \in 1..Len(tiles) : tiles[k].status # "matching"
        /\ \A k \in 1..Len(tiles) :
              Cardinality({j \in 1..Len(tiles) :
                  tiles[j].status = "slot" /\ tiles[j].type = tiles[k].type}) < 3

\* the warning is on after a match was cleared
C13_Witness ==
    /\ isLastSlotWarning
    /\ SlotCount = SLOT_SIZE - 1
    /\ \E k \in 1..Len(tiles) : tiles[k].status = "cleared"

\* one step forward in the life of a tile
StatusSucc(st) ==
    CASE st = "board" -> "slot"
      [] st = "slot" -> "matching"
      [] st = "matching" -> "cleared"
      [] OTHER -> "none"

\* C14: in every step that is not the installation of a newly generated level,
\* each tile keeps its status or moves one step forward along board, slot,
\* matching, cleared; a cleared tile keeps its status.
C14_Lifecycle ==
    [][loading = 0 =>
          /\ Len(tiles') = Len(tiles)
          /\ \A k \in 1..Len(tiles) :
                \/ tiles'[k].status = tiles[k].status
                \/ tiles'[k].status = StatusSucc(tiles[k].status)]_vars

\* C16: when the await of initGame(lvl) throws, the continuation installs
\* generateLevel(lvl), every tile of it on the board, and sets the game state to
\* playing.
C16_VideoFailure ==
    [][InitGameContinue(FALSE) =>
          /\ tiles' = generateLevel(loading)
          /\ Len(tiles') > 0
          /\ \A k \in 1..Len(tiles') : tiles'[k].status = "board"
          /\ gameState' = "playing"]_vars

\* a level is in play and no url was ever obtained
C16_Witness ==
    /\ gameState = "playing"
    /\ videoUrl = NoVideo
    /\ Len(tiles) > 0
    /\ \E k \in 1..Len(tiles) : tiles[k].status = "slot"

\* C23: the tiles of the collection have pairwise distinct ids, which are the
\* ids generateLevel gave them, and no step that is not the installation of a
\* newly generated level changes the id of a tile.
C23_Ids ==
    [][/\ \A j, k \in 1..Len(tiles') : j # k => tiles'[j].id # tiles'[k].id
       /\ IF loading # 0 /\ loading' = 0
          THEN /\ Len(tiles') = Len(LevelTiles[loading])
               /\ \A k \in 1..Len(tiles') : tiles'[k].id = LevelTiles[loading][k].id
          ELSE /\ Len(tiles') = Len(tiles)
               /\ \A k \in 1..Len(tiles) : tiles'[k].id = tiles[k].id]_vars

\* the second level is installed after a level of clicks, matches and clears
C23_Witness ==
    /\ level = 2
    /\ gameState = "playing"
    /\ Len(tiles) > Len(LevelTiles[1])
    /\ \E k \in 1..Len(tiles) : tiles[k].status = "slot"

\* tiles.filter(t => t.status === 'slot' || t.status === 'matching').length: the
\* number of tiles drawn in the tray
TrayCount == Cardinality({k \in 1..Len(tiles) : tiles[k].status \in {"slot", "matching"}})

\* the setTimeout callbacks set since the level was installed
LevelTimers == {i \in 1..Len(timers) : ~timers[i].stale}

\* C24, as stated: at most SLOT_SIZE tiles have status slot or matching.
C24_TrayBound == TrayCount <= SLOT_SIZE

\* C24, amended: the tray holds at most SLOT_SIZE tiles and three more for each
\* clear timer of the level that has not fired yet; the capacity test of the
\* click counts the tiles of status slot only.
C24_TrayBoundWithPending == TrayCount <= SLOT_SIZE + 3 * Cardinality(LevelTimers)

\* the tray holds more than SLOT_SIZE tiles while a match waits for its timer
C24_Witness ==
    /\ gameState = "playing"
    /\ TrayCount > SLOT_SIZE
    /\ Cardinality(LevelTimers) = 1

(***************************************************************************)
(* Properties of the match detection, checked under SpecMatch              *)
(***************************************************************************)
\* the places of the slot tiles of type ty
SlotOfType(ty) == {k \in 1..Len(tiles) : tiles[k].status = "slot" /\ tiles[k].type = ty}

\* the tile at place j went into the slot before the one at place k: a smaller
\* addedAt, or the same and an earlier place
Before(j, k) ==
    \/ tiles[j].addedAt < tiles[k].addedAt
    \/ (tiles[j].addedAt = tiles[k].addedAt /\ j < k)

\* C9: when some type has at least 3 slot tiles, the match moves exactly three
\* tiles of such a type to matching in one mutation, the three with the smallest
\* addedAt among its slot tiles (ties by their order in the collection); every
\* other tile stays as it is.
C9_OldestThree ==
    [][(/\ effects
        /\ gameState = "playing"
        /\ \E ty \in {0, 1} : Cardinality(SlotOfType(ty)) >= 3)
       => \E ty \in {0, 1} :
             LET moved == {k \in 1..Len(tiles) : tiles'[k] # tiles[k]}
             IN  /\ Len(tiles') = Len(tiles)
                 /\ Cardinality(SlotOfType(ty)) >= 3
                 /\ moved \subseteq SlotOfType(ty)
                 /\ Cardinality(moved) = 3
                 /\ \A k \in moved :
                       tiles'[k] = [tiles[k] EXCEPT !.status = "matching"]
                 /\ \A k \in moved : \A j \in SlotOfType(ty) \ moved : Before(k, j)]_vars

\* three tiles are matching and a tile of their type that came at the time of
\* one of them, and later in the collection, is left in the slot, as is a tile
\* that came before them but is earlier in the collection than one of them
C9_Witness ==
    \E i, j, k \in 1..Len(tiles) :
        /\ tiles[j].status = "matching"
        /\ tiles[k].status = "slot"
        /\ tiles[i].status = "matching"
        /\ tiles[k].type = tiles[j].type
        /\ tiles[i].type = tiles[j].type
        /\ tiles[k].addedAt = tiles[j].addedAt
        /\ j < k
        /\ k < i
        /\ tiles[i].addedAt < tiles[k].addedAt

CountOfType(r, ty) == Cardinality({k \in 1..Len(r) : r[k].type = ty})

\* C2: every tile type that occurs in generateLevel(L) occurs a number of times
\* that is a multiple of 3.
C2_TypeTriples ==
    \A c \in 1..Len(results) :
        \A k \in 1..Len(results[c]) :
            CountOfType(results[c], results[c][k].type) % 3 = 0

\* a call has returned a level in which some type fills more than one set and
\* the shuffle has separated the tiles of a set
C2_Witness ==
    /\ Len(results) >= 1
    /\ \E k \in 1..Len(results[1]) : CountOfType(results[1], results[1][k].type) >= 6
    /\ \E k \in 1..(Len(results[1]) - 1) : results[1][k].type # results[1][k + 1].type

\* C3: the number of tiles of generateLevel(L) is 3 * min(numSets(L), 60), with
\* numSets 4 for level 1, 15 for level 2 and 15 + (L-2)*5 above; it is never
\* above 180 and the layer loop leaves no label of the shuffled sequence unplaced.
C3_TileCount ==
    LET L == gen.level
        sets == IF L = 1 THEN 4 ELSE IF L = 2 THEN 15 ELSE 15 + (L - 2) * 5
    IN  /\ \A c \in 1..Len(results) :
              /\ Len(results[c]) = 3 * (IF sets < 60 THEN sets ELSE 60)
              /\ Len(results[c]) <= 180
        /\ gen.pc = "done" =>
              /\ gen.typeIndex = Len(gen.typesToPlace)
              /\ Len(gen.tiles) = Len(gen.typesToPlace)

\* a call has returned for a level whose number of sets is above the cap
C3_Witness ==
    /\ Len(results) >= 1
    /\ 15 + (gen.level - 2) * 5 > 60
    /\ Len(results[1]) = 180

\* the number of tiles of the sequence r in layer z
CountInLayer(r, z) == Cardinality({k \in 1..Len(r) : r[k].z = z})

\* C22: with layers = min(3 + 2L, 12) and tilesPerLayer = ceil(n / layers) for
\* the n tiles of generateLevel(L): every z is in 0..layers-1, every layer but
\* the last holds tilesPerLayer tiles, the last holds the other
\* n - (layers - 1) * tilesPerLayer, and z does not decrease along the sequence.
C22_Layers ==
    \A c \in 1..Len(results) :
        LET r == results[c]
            n == Len(r)
            L == gen.level
            layers == IF 3 + 2 * L < 12 THEN 3 + 2 * L ELSE 12
            perLayer == IF n % layers = 0 THEN n \div layers ELSE (n \div layers) + 1
        IN  /\ \A k \in 1..n : r[k].z >= 0 /\ r[k].z < layers
            /\ \A z \in 0..(layers - 2) : CountInLayer(r, z) = perLayer
            /\ CountInLayer(r, layers - 1) = n - (layers - 1) * perLayer
            /\ \A k \in 1..(n - 1) : r[k].z <= r[k + 1].z

\* a call has returned for a level with the cap of 12 layers whose last layer
\* holds fewer tiles than the others, and more than none
C22_Witness ==
    /\ Len(results) >= 1
    /\ 3 + 2 * gen.level > 12
    /\ CountInLayer(results[1], 11) > 0
    /\ CountInLayer(results[1], 11) < CountInLayer(results[1], 0)

(***************************************************************************)
(* Properties of a level in play, checked under SpecLevel                  *)
(***************************************************************************)
\* some type has three or more tiles in the slot
SlotHasTriple == \E k \in 1..Len(tiles) : Cardinality(SlotOfType(tiles[k].type)) >= 3

\* C11: the game state goes from playing to lost only from a state with SLOT_SIZE
\* slot tiles and no type with 3 or more of them, and a playing state of that
\* kind has its effects pending and its next step sets lost: the loss follows
\* the click that filled the slot, with no timer in between.
C11_Loss ==
    [][/\ (gameState = "playing" /\ gameState' = "lost")
            => (SlotCount = SLOT_SIZE /\ ~SlotHasTriple)
       /\ (gameState = "playing" /\ SlotCount = SLOT_SIZE /\ ~SlotHasTriple)
            => (effects = TRUE /\ gameState' = "lost" /\ tiles' = tiles)]_vars

\* the level is lost with a full slot
C11_Witness ==
    /\ gameState = "lost"
    /\ SlotCount = SLOT_SIZE
    /\ ~SlotHasTriple

\* the places of the tiles that go from slot to matching in the step
NewlyMatching == {k \in 1..Len(tiles) : tiles[k].status = "slot" /\ tiles'[k].status = "matching"}

\* C12: from a playing state in which a click has brought the slot to SLOT_SIZE
\* tiles and a type to 3 slot tiles, the next step does not set lost: it keeps
\* playing and moves three slot tiles of one type to matching, which leaves
\* SLOT_SIZE - 3 tiles in the slot.
C12_FullWithMatch ==
    [][(gameState = "playing" /\ SlotCount = SLOT_SIZE /\ SlotHasTriple)
          => /\ gameState' = "playing"
             /\ Len(tiles') = Len(tiles)
             /\ Cardinality(NewlyMatching) = 3
             /\ \A j, k \in NewlyMatching : tiles[j].type = tiles[k].type
             /\ Len(WithStatus(tiles', "slot")) = SLOT_SIZE - 3]_vars

\* a click has filled the slot and completed three of a type
C12_Witness ==
    /\ gameState = "playing"
    /\ effects = TRUE
    /\ SlotCount = SLOT_SIZE
    /\ SlotHasTriple

\* C18: at most SLOT_SIZE tiles have status slot.
C18_SlotBound == Len(SelectSeq(tiles, LAMBDA t : t.status = "slot")) <= SLOT_SIZE

\* the slot is full, the run accepts a further click and the board holds a
\* tile the resolver lets through
C18_Witness ==
    /\ SlotCount = SLOT_SIZE
    /\ Quiet
    /\ budget > 0
    /\ \E k \in 1..Len(tiles) : isTileClickable(tiles[k], tiles)

(***************************************************************************)
(* The frame of the tile updates, checked under Spec                       *)
(***************************************************************************)
\* the fields generateLevel gives a tile and no update writes
PlacedFields == {"id", "type", "x", "y", "z"}

\* the tile is the tile t with its status set to st and nothing else changed
OnlyStatus(t, u, st) ==
    /\ DOMAIN u = DOMAIN t
    /\ u.status = st
    /\ \A f \in DOMAIN t \ {"status"} : u[f] = t[f]

\* C26: in every step that is not the installation of a generated level the
\* collection keeps its length, every position keeps its id, type, x, y and z,
\* and a tile that changes is either the one board tile that a click moves to
\* the slot (status and addedAt written), a slot tile that the match
\* transition marks matching (status only), or a tile named by the timer that
\* fires and is set to cleared (status only); and whenever a level is
\* installed the positions hold the tiles of generateLevel in its order.
C26_Frame ==
    [][/\ loading = 0 =>
             /\ Len(tiles') = Len(tiles)
             /\ \A k \in 1..Len(tiles) :
                    /\ \A f \in PlacedFields : tiles'[k][f] = tiles[k][f]
                    /\ tiles'[k] # tiles[k] =>
                          \/ /\ tiles[k].status = "board"
                             /\ DOMAIN tiles'[k] = DOMAIN tiles[k] \cup {"addedAt"}
                             /\ tiles'[k].status = "slot"
                             /\ tiles'[k].addedAt = now
                             /\ \A j \in 1..Len(tiles) : j # k => tiles'[j] = tiles[j]
                          \/ /\ tiles[k].status = "slot"
                             /\ tiles[k].id \in idsToMatch(tiles)
                             /\ OnlyStatus(tiles[k], tiles'[k], "matching")
                          \/ /\ timers # <<>>
                             /\ tiles[k].id \in Head(timers).ids
                             /\ OnlyStatus(tiles[k], tiles'[k], "cleared")
       /\ (loading' = 0 /\ Len(tiles') > 0) =>
             /\ Len(tiles') = Len(LevelTiles[level'])
             /\ \A k \in 1..Len(tiles') :
                    \A f \in PlacedFields : tiles'[k][f] = LevelTiles[level'][k][f]]_vars

\* a level in play after clicks, a match and a clear: cleared, matching, slot
\* and board tiles stand at the positions generateLevel gave them
C26_Witness ==
    /\ gameState = "playing"
    /\ loading = 0
    /\ \A st \in {"cleared", "matching", "slot", "board"} :
          \E k \in 1..Len(tiles) : tiles[k].status = st
    /\ \A k \in 1..Len(tiles) : tiles[k].id = LevelTiles[level][k].id

(***************************************************************************)
(* Properties of the timestamps, checked under SpecTimed                   *)
(***************************************************************************)
HasAddedAt(t) == "addedAt" \in DOMAIN t

\* C15: a board tile has no addedAt; the step that moves a tile from board to
\* slot sets its addedAt to the time of the click; and in every later step that
\* is not the installation of a newly generated level a tile that has an
\* addedAt keeps it.
C15_AddedAtOnce ==
    [][/\ \A k \in 1..Len(tiles) : tiles[k].status = "board" => ~HasAddedAt(tiles[k])
       /\ \A k \in 1..Len(tiles') : tiles'[k].status = "board" => ~HasAddedAt(tiles'[k])
       /\ loading = 0 =>
             \A k \in 1..Len(tiles) :
                /\ (tiles[k].status = "board" /\ tiles'[k].status = "slot")
                      => (HasAddedAt(tiles'[k]) /\ tiles'[k].addedAt = now)
                /\ HasAddedAt(tiles[k])
                      => (HasAddedAt(tiles'[k]) /\ tiles'[k].addedAt = tiles[k].addedAt)]_vars

\* three tiles were clicked at time 1 and cleared later, and a tile clicked at
\* time 2 is in the slot
C15_Witness ==
    /\ now = 2
    /\ \E k \in 1..Len(tiles) :
          tiles[k].status = "cleared" /\ HasAddedAt(tiles[k]) /\ tiles[k].addedAt = 1
    /\ \E k \in 1..Len(tiles) :
          tiles[k].status = "slot" /\ tiles[k].addedAt = 2

(***************************************************************************)
(* Properties of SeededRandom, checked under SpecSeed                      *)
(***************************************************************************)
\* seed * Multiplier + Increment in base 2^16, lowest digit first, by long
\* multiplication
WideNext(s) ==
    LET aHi == Multiplier \div Limb
        aLo == Multiplier % Limb
        d0  == s.lo * aLo + (Increment % Limb)
        d1  == s.hi * aLo + s.lo * aHi + (Increment \div Limb) + (d0 \div Limb)
        d2  == s.hi * aHi + (d1 \div Limb)
    IN  <<d0 % Limb, d1 % Limb, d2 % Limb, d2 \div Limb>>

\* seed * Multiplier in base 2^16, lowest digit first
WideProduct(s) ==
    LET aHi == Multiplier \div Limb
        aLo == Multiplier % Limb
        d0  == s.lo * aLo
        d1  == s.hi * aLo + s.lo * aHi + (d0 \div Limb)
        d2  == s.hi * aHi + (d1 \div Limb)
    IN  <<d0 % Limb, d1 % Limb, d2 % Limb, d2 \div Limb>>

\* C17: for a seed in [0, 2^32) the product seed * 1664525 and the sum
\* seed * 1664525 + 1013904223 are below 2^53 (their digit of weight 2^48 is
\* below 2^5), next() stores the two low digits of the sum, which is the sum
\* modulo 2^32, an integer in [0, 2^32), and the value returned, seed / 2^32,
\* is at least 0 and below 1.
C17_NextExact ==
    LET s == gen.seed
        n == SeededRandomNext(s)
    IN  /\ s.hi \in 0..(Limb - 1) /\ s.lo \in 0..(Limb - 1)
        /\ WideProduct(s)[4] < 32
        /\ WideNext(s)[4] < 32
        /\ n = [hi |-> WideNext(s)[2], lo |-> WideNext(s)[1]]
        /\ n.hi \in 0..(Limb - 1) /\ n.lo \in 0..(Limb - 1)
        /\ FloorScaled(n, 1) = 0

\* next() was called on a seed above 2^31 whose sum is above 2^48
C17_Witness ==
    /\ gen.i > 0
    /\ gen.seed.hi >= Limb \div 2
    /\ WideNext(gen.seed)[4] > 0

C25_NoDeadEnd ==
    ~(/\ gameState = "playing"
      /\ Quiet
      /\ \E k \in 1..Len(tiles) : tiles[k].status # "cleared"
      /\ \A id \in Ids(tiles) : handleTileClick(gameState, tiles, id, now) = tiles
      /\ ~SlotHasTriple
      /\ \A k \in 1..Len(tiles) : tiles[k].status # "matching"
      /\ timers = <<>>)

====
